---------------------------- MODULE Spec2Model ----------------------------
(***************************************************************************)
(* BB84 key-distribution simulation: the honest script (src/bb84_sim.py)   *)
(* and the intercept-resend script (src/TEST/PARTE_2/bb84_eve_sim.py).     *)
(*                                                                         *)
(* Each main() is a straight-line program; one action per call it makes    *)
(* on the shared random stream or on the protocol components.  The draws   *)
(* of Python's global `random` are nondeterministic choices; `stream` logs *)
(* the kind of every draw in the order it is made.  Writing the result     *)
(* files and printing the Summary read the state and change none of it.    *)
(*                                                                         *)
(* Python lists are sequences; list indices stored by the code (kept_idx,  *)
(* idxs) keep their 0-based values.  Optional[int] is <<>> (None) or <<b>>.*)
(***************************************************************************)
EXTENDS Integers, Sequences, FiniteSets, TLC

VARIABLES
    script,            \* which script's main() runs: "honest" or "eve"
    pc,                \* the call main() makes next; "done"; "crashed"
    N_BITS,            \* module parameter N_BITS
    alice_bits, alice_bases, bob_bases,
    eve_bases, bits_to_bob, bases_to_bob,
    measured,          \* measured (honest) / bob_measured (eve)
    raw_A, raw_B, kept_idx,
    noise_flip_prob,   \* argument of measure(), in halves
    sample_fraction,   \* argument of sample_and_check / sample_and_qber
    idxs,              \* the sample drawn inside the estimator
    result,            \* (qber, mismatches, k) once the estimator returned
    error,             \* the exception that ended the run, "" if none
    stream             \* the draws made on the random stream, in order

vars == <<script, pc, N_BITS, alice_bits, alice_bases, bob_bases, eve_bases,
          bits_to_bob, bases_to_bob, measured, raw_A, raw_B, kept_idx,
          noise_flip_prob, sample_fraction, idxs, result, error, stream>>

(* ------------------------------ bounds -------------------------------- *)

\* largest N_BITS of a run of main()
MaxN == 2

\* longest sequence handed to a component called on its own
MaxLen == 2

(* ---------------------------- value spaces ---------------------------- *)

Bits == {0, 1}

BASES == {"R", "D"}

None == <<>>

Some(b) == <<b>>

\* probabilities and random.random() outcomes, both in halves:
\* noise_flip_prob in {0.0, 0.5, 1.0}, random.random() in {0.0, 0.5} (it is < 1)
NoiseProbs == {0, 1, 2}

UnitDraws == {0, 1}

\* a float is the rational num/den; an int has kind "int" and den 1
FloatSpec(n, d) == [kind |-> "float", num |-> n, den |-> d]

IntSpec(n) == [kind |-> "int", num |-> n, den |-> 1]

\* SAMPLE_FRACTION as set in both scripts: 0.05
SAMPLE_FRACTION == FloatSpec(1, 20)

\* NOISE_FLIP_PROB as set in the honest script: 0.0
NOISE_FLIP_PROB == 0

\* the sample_fraction arguments tried: the floats 0.05, 0.25 and 0.5 (n * f
\* is exact in binary floating point for the last two, and n * 0.05 stays
\* clear of a rounding tie for every n the model reaches), and the ints from
\* a negative one to one more than the longest raw key of a run of main()
SampleSpecs ==
    {SAMPLE_FRACTION, FloatSpec(1, 4), FloatSpec(1, 2)}
        \cup {IntSpec(i) : i \in -1 .. (MaxN + 1)}

SeqsOf(S, n) == [1 .. n -> S]

SeqsUpTo(S, n) == UNION {SeqsOf(S, m) : m \in 0 .. n}

Min2(a, b) == IF a <= b THEN a ELSE b

Draw(phase, who, n) == [i \in 1 .. n |-> <<phase, who>>]

(* --------------------- components of bb84_sim.py ---------------------- *)

\* zip() stops at the shortest of its arguments
ZipLen2(a, b) == Min2(Len(a), Len(b))

ZipLen3(a, b, c) == Min2(Len(a), ZipLen2(b, c))

ZipLen4(a, b, c, d) == Min2(Len(a), ZipLen3(b, c, d))

\* `random.random() < noise_flip_prob` with a "<=" slip
NoiseEventLe(u, p) == u <= p

\* random.random() < noise_flip_prob
NoiseEvent(u, p) == u < p

\* m ^= 1
Flip(m) == 1 - m

\* how many times measure() calls random.random(): once per zipped position
\* with equal bases
MeasureDraws(bits, a_bases, b_bases) ==
    Cardinality({i \in 1 .. ZipLen3(bits, a_bases, b_bases) : a_bases[i] = b_bases[i]})

RECURSIVE measure_from(_, _, _, _, _, _)
measure_from(i, bits, a_bases, b_bases, p, rnd) ==
    IF i > ZipLen3(bits, a_bases, b_bases) THEN <<>>
    ELSE IF a_bases[i] = b_bases[i]
         THEN <<Some(IF NoiseEvent(Head(rnd), p) THEN Flip(bits[i]) ELSE bits[i])>>
                 \o measure_from(i + 1, bits, a_bases, b_bases, p, Tail(rnd))
         ELSE <<None>> \o measure_from(i + 1, bits, a_bases, b_bases, p, rnd)

\* measure(); rnd holds the outcomes of its random.random() calls, in order
measure(bits, a_bases, b_bases, p, rnd) ==
    measure_from(1, bits, a_bases, b_bases, p, rnd)

\* extract_raw_key storing the 1-based position instead of enumerate()'s i
RECURSIVE extract_from_OneBased(_, _, _, _, _)
extract_from_OneBased(i, a_bits, meas, a_bases, b_bases) ==
    IF i > ZipLen4(a_bits, meas, a_bases, b_bases) THEN <<<<>>, <<>>, <<>>>>
    ELSE LET rest == extract_from_OneBased(i + 1, a_bits, meas, a_bases, b_bases)
         IN  IF a_bases[i] = b_bases[i] /\ meas[i] # None
             THEN << <<a_bits[i]>> \o rest[1], <<meas[i][1]>> \o rest[2],
                     <<i>> \o rest[3] >>
             ELSE rest

extract_raw_key_OneBased(a_bits, meas, a_bases, b_bases) ==
    extract_from_OneBased(1, a_bits, meas, a_bases, b_bases)

RECURSIVE extract_from(_, _, _, _, _)
extract_from(i, a_bits, meas, a_bases, b_bases) ==
    IF i > ZipLen4(a_bits, meas, a_bases, b_bases) THEN <<<<>>, <<>>, <<>>>>
    ELSE LET rest == extract_from(i + 1, a_bits, meas, a_bases, b_bases)
         IN  IF a_bases[i] = b_bases[i] /\ meas[i] # None
             THEN << <<a_bits[i]>> \o rest[1], <<meas[i][1]>> \o rest[2],
                     <<i - 1>> \o rest[3] >>
             ELSE rest

\* extract_raw_key() of bb84_sim.py: (raw_A, raw_B, kept_idx)
extract_raw_key(a_bits, meas, a_bases, b_bases) ==
    extract_from(1, a_bits, meas, a_bases, b_bases)

\* Python 3 round(a / b) for b > 0: to the nearest integer, ties to even
RoundHalfEven(a, b) ==
    LET q == a \div b
        r == a % b
    IN  IF 2 * r < b THEN q
        ELSE IF 2 * r > b THEN q + 1
        ELSE IF q % 2 = 0 THEN q ELSE q + 1

Max2(a, b) == IF a >= b THEN a ELSE b

\* k computed without the max(1, ...) around the rounded product
ResolveK_NoFloor(n, sf) ==
    LET k == IF sf.kind = "int" THEN sf.num
             ELSE RoundHalfEven(n * sf.num, sf.den)
    IN  Min2(k, n)

\* k as the estimator computes it from n = len(raw_A) and sample_fraction
ResolveK(n, sf) ==
    LET k == IF sf.kind = "int" THEN sf.num
             ELSE Max2(1, RoundHalfEven(n * sf.num, sf.den))
    IN  Min2(k, n)

\* a draw with replacement (random.choices) in place of random.sample
RandomChoices(n, k) == SeqsOf(0 .. (n - 1), k)

\* random.sample(range(n), k) for 0 <= k <= n: every list of k distinct
\* elements of range(n), in any order
RandomSample(n, k) ==
    {s \in SeqsOf(0 .. (n - 1), k) : \A i, j \in 1 .. k : i # j => s[i] # s[j]}

\* what the estimator can draw: nothing on an empty key (it returns first)
\* or for k < 0 (random.sample raises ValueError before drawing)
SampleOutcomes(n, sf) ==
    IF n = 0 \/ ResolveK(n, sf) < 0 THEN {<<>>}
    ELSE RandomSample(n, ResolveK(n, sf))

\* the test of the mismatch count with "==" for "!="
Agree(x, y) == x = y

\* raw_A[i] != raw_B[i]
Mismatch(x, y) == x # y

\* sum(1 for i in idxs if raw_A[i] != raw_B[i])
RECURSIVE CountMismatches(_, _, _)
CountMismatches(a, b, picked) ==
    IF picked = <<>> THEN 0
    ELSE (IF Mismatch(a[Head(picked) + 1], b[Head(picked) + 1]) THEN 1 ELSE 0)
            + CountMismatches(a, b, Tail(picked))

\* the float m / k, kept as the exact ratio
Ratio(m, k) == [num |-> m, den |-> k]

\* the literal 0.0
Zero == [num |-> 0, den |-> 1]

Return(v, picked) == [raised |-> "", value |-> v, idxs |-> picked]

Raise(e, picked) == [raised |-> e, value |-> <<>>, idxs |-> picked]

\* sample_and_check(); picked is what random.sample returned
sample_and_check(a, b, sf, picked) ==
    LET n == Len(a)
        k == ResolveK(n, sf)
    IN  IF n = 0 THEN Return(<<Zero, 0, 0>>, <<>>)
        ELSE IF k < 0 THEN Raise("ValueError", <<>>)
        ELSE IF \E j \in 1 .. Len(picked) : picked[j] >= Len(b)
             THEN Raise("IndexError", picked)
        ELSE IF k = 0 THEN Raise("ZeroDivisionError", picked)
        ELSE Return(<<Ratio(CountMismatches(a, b, picked), k),
                      CountMismatches(a, b, picked), k>>, picked)

(* ------------------- components of bb84_eve_sim.py -------------------- *)

\* the test of eve_intercept_resend with "!=" for "=="
EveBasisDiffers(Ba, Be) == Ba # Be

\* Ba == Be in eve_intercept_resend
EveBasisMatches(Ba, Be) == Ba = Be

\* how many times eve_intercept_resend draws random.randint(0, 1): once per
\* zipped position that takes the else branch
EveDraws(a_bits, a_bases, e_bases) ==
    Cardinality({i \in 1 .. ZipLen3(a_bits, a_bases, e_bases) :
                    ~EveBasisMatches(a_bases[i], e_bases[i])})

RECURSIVE eve_from(_, _, _, _, _)
eve_from(i, a_bits, a_bases, e_bases, rnd) ==
    IF i > ZipLen3(a_bits, a_bases, e_bases) THEN <<>>
    ELSE IF EveBasisMatches(a_bases[i], e_bases[i])
         THEN <<a_bits[i]>> \o eve_from(i + 1, a_bits, a_bases, e_bases, rnd)
         ELSE <<Head(rnd)>> \o eve_from(i + 1, a_bits, a_bases, e_bases, Tail(rnd))

\* eve_intercept_resend(): (out_bits, eve_bases[:]); rnd holds the outcomes
\* of its random.randint(0, 1) calls, in order
eve_intercept_resend(a_bits, a_bases, e_bases, rnd) ==
    <<eve_from(1, a_bits, a_bases, e_bases, rnd), e_bases>>

\* how many times bob_measure_against_eve draws random.randint(0, 1): once per
\* zipped position where Bob's basis is not Eve's
BobDraws(e_bits, e_bases, b_bases) ==
    Cardinality({i \in 1 .. ZipLen3(e_bits, e_bases, b_bases) : e_bases[i] # b_bases[i]})

RECURSIVE bob_from(_, _, _, _, _)
bob_from(i, e_bits, e_bases, b_bases, rnd) ==
    IF i > ZipLen3(e_bits, e_bases, b_bases) THEN <<>>
    ELSE IF e_bases[i] = b_bases[i]
         THEN <<Some(e_bits[i])>> \o bob_from(i + 1, e_bits, e_bases, b_bases, rnd)
         ELSE <<Some(Head(rnd))>>
                 \o bob_from(i + 1, e_bits, e_bases, b_bases, Tail(rnd))

\* bob_measure_against_eve(); rnd as for eve_intercept_resend
bob_measure_against_eve(e_bits, e_bases, b_bases, rnd) ==
    bob_from(1, e_bits, e_bases, b_bases, rnd)

\* extract_raw_key without the comparison of the bases
RECURSIVE eve_extract_from_NoBasis(_, _, _, _, _)
eve_extract_from_NoBasis(i, a_bits, meas, a_bases, b_bases) ==
    IF i > ZipLen4(a_bits, meas, a_bases, b_bases) THEN <<<<>>, <<>>, <<>>>>
    ELSE LET rest == eve_extract_from_NoBasis(i + 1, a_bits, meas, a_bases, b_bases)
         IN  IF meas[i] # None
             THEN << <<a_bits[i]>> \o rest[1], <<meas[i][1]>> \o rest[2],
                     <<i - 1>> \o rest[3] >>
             ELSE rest

eve_extract_raw_key_NoBasis(a_bits, meas, a_bases, b_bases) ==
    eve_extract_from_NoBasis(1, a_bits, meas, a_bases, b_bases)

RECURSIVE eve_extract_from(_, _, _, _, _)
eve_extract_from(i, a_bits, meas, a_bases, b_bases) ==
    IF i > ZipLen4(a_bits, meas, a_bases, b_bases) THEN <<<<>>, <<>>, <<>>>>
    ELSE LET rest == eve_extract_from(i + 1, a_bits, meas, a_bases, b_bases)
         IN  IF a_bases[i] = b_bases[i] /\ meas[i] # None
             THEN << <<a_bits[i]>> \o rest[1], <<meas[i][1]>> \o rest[2],
                     <<i - 1>> \o rest[3] >>
             ELSE rest

\* extract_raw_key() of bb84_eve_sim.py: (raw_A, raw_B, idx)
eve_extract_raw_key(a_bits, meas, a_bases, b_bases) ==
    eve_extract_from(1, a_bits, meas, a_bases, b_bases)

\* sample_and_qber(), line for line sample_and_check()
sample_and_qber(a, b, sf, picked) ==
    LET n == Len(a)
        k == ResolveK(n, sf)
    IN  IF n = 0 THEN Return(<<Zero, 0, 0>>, <<>>)
        ELSE IF k < 0 THEN Raise("ValueError", <<>>)
        ELSE IF \E j \in 1 .. Len(picked) : picked[j] >= Len(b)
             THEN Raise("IndexError", picked)
        ELSE IF k = 0 THEN Raise("ZeroDivisionError", picked)
        ELSE Return(<<Ratio(CountMismatches(a, b, picked), k),
                      CountMismatches(a, b, picked), k>>, picked)

(* ------------------------------ main() -------------------------------- *)

\* rand_bits(n) / rand_bases(n): the lists the n draws can produce
rand_bits(n) == SeqsOf(Bits, n)

rand_bases(n) == SeqsOf(BASES, n)

\* the calls of main() of bb84_sim.py, in program order
MainOrder ==
    <<"alice_bits", "alice_bases", "bob_bases", "measure", "extract", "sample", "done">>

\* main() of bb84_eve_sim.py drawing Bob's bases before Eve intercepts
EveMainOrder_BobFirst ==
    <<"alice_bits", "alice_bases", "eve_bases", "bob_bases", "eve_intercept_resend",
      "bob_measure", "extract", "sample", "done">>

\* the calls of main() of bb84_eve_sim.py, in program order
EveMainOrder ==
    <<"alice_bits", "alice_bases", "eve_bases", "eve_intercept_resend", "bob_bases",
      "bob_measure", "extract", "sample", "done">>

After(order, p) == order[(CHOOSE i \in 1 .. Len(order) : order[i] = p) + 1]

Order == IF script = "honest" THEN MainOrder ELSE EveMainOrder

Goto == pc' = After(Order, pc)

Init ==
    /\ script \in {"honest", "eve"}
    /\ pc = "alice_bits"
    /\ N_BITS \in 0 .. MaxN
    /\ alice_bits = <<>> /\ alice_bases = <<>> /\ bob_bases = <<>>
    /\ eve_bases = <<>> /\ bits_to_bob = <<>> /\ bases_to_bob = <<>>
    /\ measured = <<>>
    /\ raw_A = <<>> /\ raw_B = <<>> /\ kept_idx = <<>>
    /\ noise_flip_prob = NOISE_FLIP_PROB
    /\ sample_fraction = SAMPLE_FRACTION
    /\ idxs = <<>> /\ result = <<>> /\ error = ""
    /\ stream = <<>>

(* main() of bb84_sim.py *)

GenAliceBits ==
    /\ script = "honest" /\ pc = "alice_bits"
    /\ alice_bits' \in rand_bits(N_BITS)
    /\ stream' = stream \o Draw("bit", "alice", N_BITS)
    /\ Goto
    /\ UNCHANGED <<script, N_BITS, alice_bases, bob_bases, eve_bases, bits_to_bob,
                   bases_to_bob, measured, raw_A, raw_B, kept_idx, noise_flip_prob,
                   sample_fraction, idxs, result, error>>

GenAliceBases ==
    /\ script = "honest" /\ pc = "alice_bases"
    /\ alice_bases' \in rand_bases(N_BITS)
    /\ stream' = stream \o Draw("basis", "alice", N_BITS)
    /\ Goto
    /\ UNCHANGED <<script, N_BITS, alice_bits, bob_bases, eve_bases, bits_to_bob,
                   bases_to_bob, measured, raw_A, raw_B, kept_idx, noise_flip_prob,
                   sample_fraction, idxs, result, error>>

GenBobBases ==
    /\ script = "honest" /\ pc = "bob_bases"
    /\ bob_bases' \in rand_bases(N_BITS)
    /\ stream' = stream \o Draw("basis", "bob", N_BITS)
    /\ Goto
    /\ UNCHANGED <<script, N_BITS, alice_bits, alice_bases, eve_bases, bits_to_bob,
                   bases_to_bob, measured, raw_A, raw_B, kept_idx, noise_flip_prob,
                   sample_fraction, idxs, result, error>>

Measure ==
    /\ script = "honest" /\ pc = "measure"
    /\ \E p \in NoiseProbs :
       \E rnd \in SeqsOf(UnitDraws, MeasureDraws(alice_bits, alice_bases, bob_bases)) :
          /\ noise_flip_prob' = p
          /\ measured' = measure(alice_bits, alice_bases, bob_bases, p, rnd)
          /\ stream' = stream \o Draw("measure", "bob", Len(rnd))
    /\ Goto
    /\ UNCHANGED <<script, N_BITS, alice_bits, alice_bases, bob_bases, eve_bases,
                   bits_to_bob, bases_to_bob, raw_A, raw_B, kept_idx,
                   sample_fraction, idxs, result, error>>

ExtractRawKey ==
    /\ script = "honest" /\ pc = "extract"
    /\ LET r == extract_raw_key(alice_bits, measured, alice_bases, bob_bases)
       IN  raw_A' = r[1] /\ raw_B' = r[2] /\ kept_idx' = r[3]
    /\ Goto
    /\ UNCHANGED <<script, N_BITS, alice_bits, alice_bases, bob_bases, eve_bases,
                   bits_to_bob, bases_to_bob, measured, noise_flip_prob,
                   sample_fraction, idxs, result, error, stream>>

\* what a call of the estimator leaves behind: its result, or the exception
\* that ends main()
Estimated(sf, r) ==
    /\ sample_fraction' = sf
    /\ idxs' = r.idxs
    /\ stream' = stream \o Draw("sample", "estimator", Len(r.idxs))
    /\ result' = r.value
    /\ error' = r.raised
    /\ pc' = IF r.raised = "" THEN After(Order, pc) ELSE "crashed"

SampleAndCheck ==
    /\ script = "honest" /\ pc = "sample"
    /\ \E sf \in SampleSpecs : \E picked \in SampleOutcomes(Len(raw_A), sf) :
          Estimated(sf, sample_and_check(raw_A, raw_B, sf, picked))
    /\ UNCHANGED <<script, N_BITS, alice_bits, alice_bases, bob_bases, eve_bases,
                   bits_to_bob, bases_to_bob, measured, raw_A, raw_B, kept_idx,
                   noise_flip_prob>>

(* main() of bb84_eve_sim.py *)

EveGenAliceBits ==
    /\ script = "eve" /\ pc = "alice_bits"
    /\ alice_bits' \in rand_bits(N_BITS)
    /\ stream' = stream \o Draw("bit", "alice", N_BITS)
    /\ Goto
    /\ UNCHANGED <<script, N_BITS, alice_bases, bob_bases, eve_bases, bits_to_bob,
                   bases_to_bob, measured, raw_A, raw_B, kept_idx, noise_flip_prob,
                   sample_fraction, idxs, result, error>>

EveGenAliceBases ==
    /\ script = "eve" /\ pc = "alice_bases"
    /\ alice_bases' \in rand_bases(N_BITS)
    /\ stream' = stream \o Draw("basis", "alice", N_BITS)
    /\ Goto
    /\ UNCHANGED <<script, N_BITS, alice_bits, bob_bases, eve_bases, bits_to_bob,
                   bases_to_bob, measured, raw_A, raw_B, kept_idx, noise_flip_prob,
                   sample_fraction, idxs, result, error>>

EveGenEveBases ==
    /\ script = "eve" /\ pc = "eve_bases"
    /\ eve_bases' \in rand_bases(N_BITS)
    /\ stream' = stream \o Draw("basis", "eve", N_BITS)
    /\ Goto
    /\ UNCHANGED <<script, N_BITS, alice_bits, alice_bases, bob_bases, bits_to_bob,
                   bases_to_bob, measured, raw_A, raw_B, kept_idx, noise_flip_prob,
                   sample_fraction, idxs, result, error>>

EveInterceptResend ==
    /\ script = "eve" /\ pc = "eve_intercept_resend"
    /\ \E rnd \in SeqsOf(Bits, EveDraws(alice_bits, alice_bases, eve_bases)) :
          LET r == eve_intercept_resend(alice_bits, alice_bases, eve_bases, rnd)
          IN  /\ bits_to_bob' = r[1]
              /\ bases_to_bob' = r[2]
              /\ stream' = stream \o Draw("measure", "eve", Len(rnd))
    /\ Goto
    /\ UNCHANGED <<script, N_BITS, alice_bits, alice_bases, bob_bases, eve_bases,
                   measured, raw_A, raw_B, kept_idx, noise_flip_prob,
                   sample_fraction, idxs, result, error>>

EveGenBobBases ==
    /\ script = "eve" /\ pc = "bob_bases"
    /\ bob_bases' \in rand_bases(N_BITS)
    /\ stream' = stream \o Draw("basis", "bob", N_BITS)
    /\ Goto
    /\ UNCHANGED <<script, N_BITS, alice_bits, alice_bases, eve_bases, bits_to_bob,
                   bases_to_bob, measured, raw_A, raw_B, kept_idx, noise_flip_prob,
                   sample_fraction, idxs, result, error>>

BobMeasureAgainstEve ==
    /\ script = "eve" /\ pc = "bob_measure"
    /\ \E rnd \in SeqsOf(Bits, BobDraws(bits_to_bob, bases_to_bob, bob_bases)) :
          /\ measured' = bob_measure_against_eve(bits_to_bob, bases_to_bob, bob_bases, rnd)
          /\ stream' = stream \o Draw("measure", "bob", Len(rnd))
    /\ Goto
    /\ UNCHANGED <<script, N_BITS, alice_bits, alice_bases, bob_bases, eve_bases,
                   bits_to_bob, bases_to_bob, raw_A, raw_B, kept_idx, noise_flip_prob,
                   sample_fraction, idxs, result, error>>

EveExtractRawKey ==
    /\ script = "eve" /\ pc = "extract"
    /\ LET r == eve_extract_raw_key(alice_bits, measured, alice_bases, bob_bases)
       IN  raw_A' = r[1] /\ raw_B' = r[2] /\ kept_idx' = r[3]
    /\ Goto
    /\ UNCHANGED <<script, N_BITS, alice_bits, alice_bases, bob_bases, eve_bases,
                   bits_to_bob, bases_to_bob, measured, noise_flip_prob,
                   sample_fraction, idxs, result, error, stream>>

SampleAndQber ==
    /\ script = "eve" /\ pc = "sample"
    /\ \E sf \in SampleSpecs : \E picked \in SampleOutcomes(Len(raw_A), sf) :
          Estimated(sf, sample_and_qber(raw_A, raw_B, sf, picked))
    /\ UNCHANGED <<script, N_BITS, alice_bits, alice_bases, bob_bases, eve_bases,
                   bits_to_bob, bases_to_bob, measured, raw_A, raw_B, kept_idx,
                   noise_flip_prob>>

HonestNext ==
    \/ GenAliceBits \/ GenAliceBases \/ GenBobBases
    \/ Measure \/ ExtractRawKey \/ SampleAndCheck

EveNext ==
    \/ EveGenAliceBits \/ EveGenAliceBases \/ EveGenEveBases \/ EveInterceptResend
    \/ EveGenBobBases \/ BobMeasureAgainstEve \/ EveExtractRawKey \/ SampleAndQber

Next == HonestNext \/ EveNext

\* a run of either script's main()
Spec == Init /\ [][Next]_vars

(* ------------------- a component called on its own -------------------- *)

Measurements == {None, Some(0), Some(1)}

\* the state before a call of one component of either script, with
\* arguments of any lengths up to MaxLen
InitCalls ==
    /\ script \in {"honest", "eve"}
    /\ pc \in {"measure", "eve_intercept_resend", "bob_measure", "extract", "sample"}
    /\ script = "honest" => pc \in {"measure", "extract", "sample"}
    /\ script = "eve" => pc # "measure"
    /\ alice_bits \in IF pc \in {"measure", "eve_intercept_resend", "extract"}
                      THEN SeqsUpTo(Bits, MaxLen) ELSE {<<>>}
    /\ alice_bases \in IF pc \in {"measure", "eve_intercept_resend", "extract"}
                       THEN SeqsUpTo(BASES, MaxLen) ELSE {<<>>}
    /\ bob_bases \in IF pc \in {"measure", "bob_measure", "extract"}
                     THEN SeqsUpTo(BASES, MaxLen) ELSE {<<>>}
    /\ eve_bases \in IF pc = "eve_intercept_resend"
                     THEN SeqsUpTo(BASES, MaxLen) ELSE {<<>>}
    /\ bits_to_bob \in IF pc = "bob_measure" THEN SeqsUpTo(Bits, MaxLen) ELSE {<<>>}
    /\ bases_to_bob \in IF pc = "bob_measure" THEN SeqsUpTo(BASES, MaxLen) ELSE {<<>>}
    /\ measured \in IF pc = "extract" THEN SeqsUpTo(Measurements, MaxLen) ELSE {<<>>}
    /\ raw_A \in IF pc = "sample" THEN SeqsUpTo(Bits, MaxLen) ELSE {<<>>}
    /\ raw_B \in IF pc = "sample" THEN SeqsUpTo(Bits, MaxLen) ELSE {<<>>}
    /\ kept_idx = <<>>
    /\ N_BITS = Len(alice_bits)
    /\ noise_flip_prob = NOISE_FLIP_PROB
    /\ sample_fraction = SAMPLE_FRACTION
    /\ idxs = <<>> /\ result = <<>> /\ error = ""
    /\ stream = <<>>

NextCalls ==
    \/ Measure \/ ExtractRawKey \/ SampleAndCheck
    \/ EveInterceptResend \/ BobMeasureAgainstEve \/ EveExtractRawKey \/ SampleAndQber

\* the components of both scripts, each called with arbitrary arguments
SpecCalls == InitCalls /\ [][NextCalls]_vars

(* --------------------- the scenario of ten photons -------------------- *)

ScenarioAliceBits == <<0, 1, 1, 0, 1, 0, 0, 1, 1, 0>>

ScenarioAliceBases == <<"R", "D", "R", "R", "D", "D", "R", "D", "R", "D">>

ScenarioBobBases == <<"R", "R", "R", "D", "D", "D", "D", "D", "R", "D">>

\* main() of bb84_sim.py after its three generation calls drew the scenario's
\* bits and bases
InitScenario ==
    /\ script = "honest"
    /\ pc = "measure"
    /\ N_BITS = Len(ScenarioAliceBits)
    /\ alice_bits = ScenarioAliceBits
    /\ alice_bases = ScenarioAliceBases
    /\ bob_bases = ScenarioBobBases
    /\ eve_bases = <<>> /\ bits_to_bob = <<>> /\ bases_to_bob = <<>>
    /\ measured = <<>>
    /\ raw_A = <<>> /\ raw_B = <<>> /\ kept_idx = <<>>
    /\ noise_flip_prob = NOISE_FLIP_PROB
    /\ sample_fraction = SAMPLE_FRACTION
    /\ idxs = <<>> /\ result = <<>> /\ error = ""
    /\ stream = Draw("bit", "alice", N_BITS) \o Draw("basis", "alice", N_BITS)
                    \o Draw("basis", "bob", N_BITS)

NextScenario == Measure \/ ExtractRawKey \/ SampleAndCheck

SpecScenario == InitScenario /\ [][NextScenario]_vars

(* ------------------------------ claims -------------------------------- *)

Elems(q) == {q[j] : j \in 1 .. Len(q)}

\* the measurement call of the running script has returned
MeasuredDone == pc \in {"extract", "sample", "done", "crashed"}

\* extract_raw_key has returned
Sifted == pc \in {"sample", "done", "crashed"}

\* the estimator has returned a result
Returned == pc = "done"

\* the estimator has been called and has returned or raised
EstimatorEnded == pc \in {"done", "crashed"}

\* C1: in the honest script with noise_flip_prob = 0, whatever was drawn, the
\* two raw keys agree at every position, and the estimator, when it returns,
\* reports mismatches = 0 and QBER = 0.
C1_HonestCorrelation ==
    (script = "honest" /\ noise_flip_prob = 0) =>
        /\ Sifted => /\ Len(raw_A) = Len(raw_B)
                     /\ \A j \in 1 .. Len(raw_A) : raw_A[j] = raw_B[j]
        /\ Returned => result[2] = 0 /\ result[1].num = 0

C1_Witness ==
    /\ script = "honest" /\ Returned /\ noise_flip_prob = 0
    /\ Len(raw_A) = 2 /\ raw_A[1] # raw_A[2] /\ result[3] = 2

\* C2: in the eavesdropper script, at every position where Eve's basis is
\* Alice's and Bob's is Eve's, Bob measures Alice's bit; so the raw keys can
\* differ only at a position where Eve's basis is not Alice's.
C2_EveChain ==
    script = "eve" =>
        /\ MeasuredDone =>
              \A i \in 1 .. N_BITS :
                 (eve_bases[i] = alice_bases[i] /\ bob_bases[i] = eve_bases[i])
                    => measured[i] = Some(alice_bits[i])
        /\ Sifted =>
              \A j \in 1 .. Len(raw_A) :
                 raw_A[j] # raw_B[j]
                    => eve_bases[kept_idx[j] + 1] # alice_bases[kept_idx[j] + 1]

C2_Witness ==
    /\ script = "eve" /\ Sifted /\ Len(raw_A) = 2
    /\ raw_A[1] = raw_B[1] /\ raw_A[2] # raw_B[2]
    /\ eve_bases[1] = alice_bases[1] /\ bob_bases[1] = eve_bases[1]

\* C3: extract_raw_key keeps position i exactly when the two bases agree at i
\* and measured[i] is defined; in the eavesdropper script every measurement
\* is defined and the kept positions are exactly those where Alice's and
\* Bob's bases agree.
C3_Sifting ==
    Sifted =>
        /\ \A i \in 0 .. (N_BITS - 1) :
              (i \in Elems(kept_idx))
                 <=> (alice_bases[i + 1] = bob_bases[i + 1] /\ measured[i + 1] # None)
        /\ script = "eve" =>
              /\ \A i \in 1 .. N_BITS : measured[i] # None
              /\ Elems(kept_idx)
                    = {i \in 0 .. (N_BITS - 1) : alice_bases[i + 1] = bob_bases[i + 1]}

C3_Witness ==
    /\ script = "eve" /\ Sifted /\ N_BITS = 2
    /\ kept_idx = <<1>> /\ alice_bases[1] # bob_bases[1]

\* C4: the three outputs of extract_raw_key have one length, at most N;
\* kept_idx is strictly increasing; raw_A and raw_B are alice_bits and
\* measured read at the kept indices.
C4_Projection ==
    Sifted =>
        /\ Len(raw_A) = Len(kept_idx) /\ Len(raw_B) = Len(kept_idx)
        /\ Len(kept_idx) <= N_BITS
        /\ \A j \in 1 .. Len(kept_idx) : kept_idx[j] \in 0 .. (N_BITS - 1)
        /\ \A j \in 1 .. (Len(kept_idx) - 1) : kept_idx[j] < kept_idx[j + 1]
        /\ \A j \in 1 .. Len(kept_idx) :
              /\ raw_A[j] = alice_bits[kept_idx[j] + 1]
              /\ Some(raw_B[j]) = measured[kept_idx[j] + 1]

C4_Witness ==
    /\ script = "honest" /\ Sifted /\ kept_idx = <<0, 1>>
    /\ raw_A = <<0, 1>> /\ raw_B = <<1, 0>>

\* C5: the estimator samples at most len(raw_A) positions, each in
\* [0, len(raw_A)), none twice, and the sample size it returns is the number
\* of positions sampled.
C5_SamplingBound ==
    /\ Len(idxs) <= Len(raw_A)
    /\ \A j \in 1 .. Len(idxs) : idxs[j] \in 0 .. (Len(raw_A) - 1)
    /\ \A i, j \in 1 .. Len(idxs) : i # j => idxs[i] # idxs[j]
    /\ Returned => result[3] = Len(idxs) /\ result[3] <= Len(raw_A)

C5_Witness ==
    /\ Returned /\ sample_fraction = IntSpec(3)
    /\ Len(raw_A) = 2 /\ idxs = <<1, 0>>

\* C6: on a raw key that is not empty, a sample_fraction that resolves to
\* k <= 0 is treated as k = 1: the estimator returns a result of sample
\* size 1 and raises nothing.
C6_InvalidSampleSize ==
    (EstimatorEnded /\ Len(raw_A) > 0 /\ ResolveK(Len(raw_A), sample_fraction) <= 0)
        => (Returned /\ result[3] = 1)

\* C7: the estimator's result is (qber, mismatches, k) with mismatches the
\* number of sampled positions where the raw keys differ, 0 <= mismatches
\* <= k, and qber = mismatches / k; on an empty raw key it returns
\* (0.0, 0, 0) for every sample_fraction, draws nothing and raises nothing.
C7_QberResult ==
    /\ (EstimatorEnded /\ Len(raw_A) = 0) =>
          /\ Returned
          /\ result = <<Zero, 0, 0>>
          /\ idxs = <<>>
          /\ \A j \in 1 .. Len(stream) : stream[j][1] # "sample"
    /\ (Returned /\ Len(raw_A) > 0) =>
          /\ result[3] = Len(idxs)
          /\ result[2] = Cardinality({i \in Elems(idxs) : raw_A[i + 1] # raw_B[i + 1]})
          /\ 0 <= result[2] /\ result[2] <= result[3]
          /\ result[1].den > 0
          /\ result[1].num * result[3] = result[2] * result[1].den

C7_Witness ==
    /\ script = "eve" /\ Returned
    /\ result[3] = 2 /\ result[2] = 1

\* C8: in the scenario of ten photons with noise_flip_prob = 0 the bases
\* agree at positions {0,2,4,5,8,9}, Bob measures Alice's bits there, the raw
\* key has length 6, sample_fraction 0.05 gives k = 1, and the estimator
\* reports 0 mismatches and QBER 0.0.
C8_ScenarioAsStated ==
    /\ (MeasuredDone /\ noise_flip_prob = 0) =>
          \A i \in {0, 2, 4, 5, 8, 9} : measured[i + 1] = Some(alice_bits[i + 1])
    /\ Sifted => (Elems(kept_idx) = {0, 2, 4, 5, 8, 9} /\ Len(raw_A) = 6)
    /\ (EstimatorEnded /\ noise_flip_prob = 0 /\ sample_fraction = SAMPLE_FRACTION) =>
          /\ Returned
          /\ result[3] = 1 /\ result[2] = 0 /\ result[1].num = 0

\* C8 as amended: the bases agree at positions {0,2,4,5,7,8,9} and the raw
\* key has length 7; the rest as stated.
C8_ScenarioAmended ==
    /\ (MeasuredDone /\ noise_flip_prob = 0) =>
          \A i \in {0, 2, 4, 5, 7, 8, 9} : measured[i + 1] = Some(alice_bits[i + 1])
    /\ Sifted => /\ kept_idx = <<0, 2, 4, 5, 7, 8, 9>>
                 /\ Elems(kept_idx)
                       = {i \in 0 .. 9 : ScenarioAliceBases[i + 1] = ScenarioBobBases[i + 1]}
                 /\ Len(raw_A) = 7 /\ Len(raw_B) = 7
    /\ (EstimatorEnded /\ noise_flip_prob = 0 /\ sample_fraction = SAMPLE_FRACTION) =>
          /\ Returned
          /\ result[3] = 1 /\ result[2] = 0 /\ result[1].num = 0

C8_Witness ==
    /\ Returned /\ noise_flip_prob = 0 /\ sample_fraction = SAMPLE_FRACTION
    /\ idxs = <<4>> /\ kept_idx[5] = 7

\* the component about to run has been handed sequences of unequal length
UnequalArgs ==
    LET lens ==
          IF pc = "measure" THEN {Len(alice_bits), Len(alice_bases), Len(bob_bases)}
          ELSE IF pc = "eve_intercept_resend"
               THEN {Len(alice_bits), Len(alice_bases), Len(eve_bases)}
          ELSE IF pc = "bob_measure"
               THEN {Len(bits_to_bob), Len(bases_to_bob), Len(bob_bases)}
          ELSE IF pc = "extract"
               THEN {Len(alice_bits), Len(measured), Len(alice_bases), Len(bob_bases)}
          ELSE IF pc = "sample" THEN {Len(raw_A), Len(raw_B)}
          ELSE {}
    IN  Cardinality(lens) > 1

\* C9: a component that receives sequences of unequal length fails with an
\* error; it returns no result computed from a prefix of its arguments.
C9_LengthMismatchFailsFast == [][UnequalArgs => pc' = "crashed"]_vars

PhaseRank(d) ==
    CASE d[1] = "bit" -> 1
      [] d[1] = "basis" -> 2
      [] d[1] = "measure" -> 3
      [] d[1] = "sample" -> 4

\* C10: in every run of either main() the draws on the random stream come in
\* phase order: bit generation, then basis generation, then measurement, then
\* sampling.
\* (a rank that never falls from one draw to the next never falls between
\* any earlier and any later draw)
C10_PhaseOrder ==
    \A i \in 1 .. (Len(stream) - 1) :
       PhaseRank(stream[i]) <= PhaseRank(stream[i + 1])

HonestRank(d) ==
    CASE d = <<"bit", "alice">> -> 1
      [] d = <<"basis", "alice">> -> 2
      [] d = <<"basis", "bob">> -> 3
      [] d = <<"measure", "bob">> -> 4
      [] d = <<"sample", "estimator">> -> 5

EveRank(d) ==
    CASE d = <<"bit", "alice">> -> 1
      [] d = <<"basis", "alice">> -> 2
      [] d = <<"basis", "eve">> -> 3
      [] d = <<"measure", "eve">> -> 4
      [] d = <<"basis", "bob">> -> 5
      [] d = <<"measure", "bob">> -> 6
      [] d = <<"sample", "estimator">> -> 7

\* C10 as amended: the honest main() draws in phase order; the eavesdropper
\* main() draws the bits, Alice's bases, Eve's bases, Eve's measurements,
\* Bob's bases, Bob's measurements, then the sample, so that Bob's bases are
\* drawn after Eve's measurement draws; bit generation is first and sampling
\* last in both.
C10_PhaseOrderAmended ==
    IF script = "honest"
    THEN \A i \in 1 .. (Len(stream) - 1) :
            /\ HonestRank(stream[i]) <= HonestRank(stream[i + 1])
            /\ PhaseRank(stream[i]) <= PhaseRank(stream[i + 1])
    ELSE \A i \in 1 .. (Len(stream) - 1) :
            EveRank(stream[i]) <= EveRank(stream[i + 1])

C10_Witness ==
    /\ script = "eve" /\ Returned /\ N_BITS = 2
    /\ \E i, j, k \in 1 .. Len(stream) :
          /\ i < j /\ j < k
          /\ stream[i] = <<"measure", "eve">>
          /\ stream[j] = <<"basis", "bob">>
          /\ stream[k] = <<"sample", "estimator">>

=============================================================================
